---- MODULE Spec2Model ----
(***************************************************************************)
(* Escape-time fractal sketch of src/src/fractals/mandelbrot.js: the       *)
(* configuration appState, the sampled plane FIELD, the pixel buffer, and  *)
(* the two entry points p5.update and p5.draw.                             *)
(*                                                                         *)
(* Numbers.  JavaScript numbers are modelled by exact rationals <<n, d>>   *)
(* (d > 0, lowest terms).  Every input the model draws is a multiple of    *)
(* one half once scaled, so the doubles the program computes are exactly   *)
(* these rationals.  The colour value itr - log(log(|Z|))/log(2) is kept   *)
(* symbolically (colour values, below) and compared with integers by the   *)
(* monotonicity of log.                                                    *)
(*                                                                         *)
(* Grid.  The program's grid is WIDTH x HEIGHT = 512 x 512; the model      *)
(* follows the samples and pixels at the coordinates in Probe only.        *)
(***************************************************************************)
EXTENDS Integers, Sequences, FiniteSets, TLC

VARIABLES appState, FIELD, planes, pixels, sweep, last

vars == <<appState, FIELD, planes, pixels, sweep, last>>

\* ------------------------------------------------------------------ bounds
\* Largest number of complex planes createComplexPlane may build in a run.
MaxPlanes == 3
\* Largest iteration count a non-reset update carries.
MaxPatchIters == 3

\* --------------------------------------------------------------- constants
WIDTH == 512
HEIGHT == 512
ALPHA == 250
MAXHUE == 360
MAXSAT == 100

\* Pixel coordinates the model follows (of 0 .. WIDTH-1).
Probe == {0, 256}
Points == Probe \X Probe

\* ---------------------------------------------------------------- numbers
Abs(n) == IF n < 0 THEN -n ELSE n

\* The element of a one-element set: {e(v) : v \in {x}} computes x once
Only(S) == CHOOSE x \in S : TRUE

\* The function f with every value computed (an array, not a rule)
Array(f) == f @@ f

RECURSIVE GCD(_, _)
GCD(a, b) == IF b = 0 THEN a ELSE GCD(b, a % b)

\* The rational n/d in lowest terms (d > 0).
RNorm(n, d) == LET g == GCD(Abs(n), d) IN <<n \div g, d \div g>>

RInt(n) == <<n, 1>>

RAdd(a, b) ==
    IF a[2] = 1 /\ b[2] = 1 THEN <<a[1] + b[1], 1>>
    ELSE LET g == GCD(a[2], b[2])
         IN  RNorm(a[1] * (b[2] \div g) + b[1] * (a[2] \div g),
                   (a[2] \div g) * b[2])

RNeg(a) == <<-a[1], a[2]>>

RSub(a, b) == RAdd(a, RNeg(b))

RMul(a, b) ==
    IF a[2] = 1 /\ b[2] = 1 THEN <<a[1] * b[1], 1>>
    ELSE LET g1 == GCD(Abs(a[1]), b[2])
             g2 == GCD(Abs(b[1]), a[2])
         IN  RNorm((a[1] \div g1) * (b[1] \div g2),
                   (a[2] \div g2) * (b[2] \div g1))

RLess(a, b) == a[1] * b[2] < b[1] * a[2]

\* Largest integer k with k <= 100 * a, for a >= 0.
Centi(a) == (a[1] \div a[2]) * 100 + ((a[1] % a[2]) * 100) \div a[2]

\* ------------------------------------------------------- complex numbers
\* Complex.of(re, im)
ComplexOf(re, im) == [re |-> re, im |-> im]

\* a.add(b)
add(a, b) == [re |-> RAdd(a.re, b.re), im |-> RAdd(a.im, b.im)]

\* a.multiply(b): (ac - bd, ad + bc)
multiply(a, b) ==
    [re |-> RSub(RMul(a.re, b.re), RMul(a.im, b.im)),
     im |-> RAdd(RMul(a.re, b.im), RMul(a.im, b.re))]

\* modulus(a)^2 = re^2 + im^2
modulusSquared(a) == RAdd(RMul(a.re, a.re), RMul(a.im, a.im))

\* a.modulus() < r for an integer r: modulus is sqrt(modulusSquared) >= 0.
modulusLess(a, r) == r > 0 /\ RLess(modulusSquared(a), RInt(r * r))

\* ------------------------------------------- colour values (extended reals)
(* A colour value is NaN, +Infinity, or the real (a - L(m)) / q, where      *)
(* L(m) = log(log(sqrt(m)))/log(2) is present when lg holds (m > 1 is the   *)
(* squared modulus of the final Z), a is an integer and q a positive        *)
(* integer.                                                                 *)
NoLog == <<0, 1>>
NaN == [k |-> "nan", a |-> 0, lg |-> FALSE, m |-> NoLog, q |-> 1]
Infinity == [k |-> "inf", a |-> 0, lg |-> FALSE, m |-> NoLog, q |-> 1]
VInt(n) == [k |-> "num", a |-> n, lg |-> FALSE, m |-> NoLog, q |-> 1]

\* floor(100 * e^(2^(t/2))) for t in -4 .. 8; e^(2^x) is irrational.
ExpCenti(t) ==
    CASE t = -4 -> 128
      [] t = -3 -> 142
      [] t = -2 -> 164
      [] t = -1 -> 202
      [] t = 0 -> 271
      [] t = 1 -> 411
      [] t = 2 -> 738
      [] t = 3 -> 1691
      [] t = 4 -> 5459
      [] t = 5 -> 28624
      [] t = 6 -> 298095
      [] t = 7 -> 8193720
      [] t = 8 -> 888611052

\* L(m) >= twice / 2, that is m >= e^(2^(twice/2 + 1)), for a rational m
\* with 1.29 <= m < 2^31 / 100.  Decided on floor(100 m); exact unless
\* floor(100 m) is the tabled floor itself (LogTableDecides below states
\* that no rendered value is).
LAtLeast(m, twice) ==
    IF twice + 2 >= 9 THEN FALSE
    ELSE IF twice + 2 <= -4 THEN Centi(m) > ExpCenti(-4)
    ELSE Centi(m) > ExpCenti(twice + 2)

\* L(m) >= K for an integer K
LogLogGeq(m, K) == LAtLeast(m, 2 * K)

\* The integer K with K <= L(m) < K + 1
FloorL(m) == CHOOSE K \in -3 .. 3 : LogLogGeq(m, K) /\ ~LogLogGeq(m, K + 1)

\* itr - Math.log(Math.log(Z.modulus())) / log2, with m = |Z|^2:
\* |Z| < 1 gives log of a negative number or of -Infinity, NaN; |Z| = 1
\* gives itr - (-Infinity), +Infinity.
renormalized(itr, m) ==
    IF RLess(m, RInt(1)) THEN NaN
    ELSE IF m = RInt(1) THEN Infinity
    ELSE [k |-> "num", a |-> itr, lg |-> TRUE, m |-> m, q |-> 1]

\* base + v for an integer base
VPlus(base, v) == IF v.k = "num" THEN [v EXCEPT !.a = v.a + base] ELSE v

\* v <= n for an integer n and a value v with q = 1 (false for NaN)
VLeq(v, n) ==
    /\ v.k = "num"
    /\ IF v.lg THEN LogLogGeq(v.m, v.a - n) ELSE v.a <= n

\* p5.norm(v, 0, max) = p5.map(v, 0, max, 0, 1) = (v - 0) / (max - 0) * (1 - 0) + 0
norm(v, lo, max) == IF v.k = "num" THEN [v EXCEPT !.q = max - lo] ELSE v

\* The integer nearest to f + (rem + d) / q, ties to even, where
\* 0 <= rem < q and d is 0 ("exact"), in (0, 1/2) ("low") or in (1/2, 1)
\* ("high")
Nearest(f, rem, q, d) ==
    CASE d = "exact" -> IF 2 * rem < q THEN f
                        ELSE IF 2 * rem > q THEN f + 1
                        ELSE IF f % 2 = 0 THEN f ELSE f + 1
      [] d = "low" -> IF 2 * rem < q THEN f ELSE f + 1
      [] d = "high" -> IF 2 * rem + 2 <= q THEN f ELSE f + 1

\* p5.pixels[i] = v : the store into the Uint8ClampedArray (ToUint8Clamp):
\* NaN is 0, the others are rounded to the nearest integer, ties to even,
\* and clamped to 0 .. 255
ToUint8Clamp(v) ==
    IF v.k = "nan" THEN 0
    ELSE IF v.k = "inf" THEN 255
    ELSE LET floorOfTop == IF v.lg THEN v.a - FloorL(v.m) - 1 ELSE v.a
             d == IF ~v.lg THEN "exact"
                  ELSE IF LAtLeast(v.m, 2 * FloorL(v.m) + 1) THEN "low"
                  ELSE "high"
             r == Nearest(floorOfTop \div v.q, floorOfTop % v.q, v.q, d)
         IN  IF r < 0 THEN 0 ELSE IF r > 255 THEN 255 ELSE r

\* ---------------------------------------------------------- configuration
Undefined == [def |-> FALSE, val |-> <<0, 1>>]
Number(r) == [def |-> TRUE, val |-> r]

defaultState ==
    [maxIters |-> 400,
     escapeRadius |-> 20,
     escapeColoring |-> FALSE,
     zoomX |-> <<-5, 2>>,
     zoomY |-> <<5, 2>>,
     hsb |-> [h |-> 0, s |-> 0, b |-> 0],
     isJulia |-> "false",
     juliaConstant |-> Number(<<57, 200>>),
     reset |-> FALSE]

\* Object.assign({}, getDefault ? defaultState : appState)
getState(getDefault) == IF getDefault THEN defaultState ELSE appState

\* ------------------------------------------------------------ the patches
Keys == {"reset", "iterations", "bound", "zoomX", "zoomY", "isJulia",
         "juliaConstant", "hsb", "escapeColoring"}

\* An update object: the properties in has are present, the others absent.
Patch(has, reset, iterations, bound, zoomX, zoomY, isJulia, juliaConstant, hsb, escapeColoring) ==
    [has |-> has, reset |-> reset, iterations |-> iterations, bound |-> bound,
     zoomX |-> zoomX, zoomY |-> zoomY, isJulia |-> isJulia,
     juliaConstant |-> juliaConstant, hsb |-> hsb,
     escapeColoring |-> escapeColoring]

NoHsb == [hue |-> 0, saturation |-> 0, brightness |-> 0]

\* The object with the properties in has, every value a zero.
Bare(has) == Patch(has, FALSE, 0, 0, 0, 0, FALSE, <<0, 1>>, NoHsb, FALSE)

\* update[key]|0 : ToInt32 of an absent property (undefined) is 0
Int32(update, key) == IF key \in update.has THEN update[key] ELSE 0

\* update.isJulia as a JavaScript value
IsJuliaOf(update) ==
    IF "isJulia" \in update.has
    THEN (IF update.isJulia THEN "true" ELSE "false")
    ELSE "undefined"

\* update.juliaConstant
JuliaConstantOf(update) ==
    IF "juliaConstant" \in update.has
    THEN Number(update.juliaConstant)
    ELSE Undefined

\* if (update.reset)
ResetRequested(update) == "reset" \in update.has /\ update.reset

\* (v|0) * .01
Hundredths(v) == RNorm(v, 100)

\* ------------------------------------------------------------ the sampler
\* p5.map(n, start1, stop1, start2, stop2), memoized as scale
scale(n, start1, stop1, start2, stop2) ==
    RAdd(RMul(RNorm(n - start1, stop1 - start1), RSub(stop2, start2)), start2)

\* createComplexPlane(zoomX, zoomY), at the followed coordinates
createComplexPlane(zoomX, zoomY) ==
    Array([p \in Points |->
              ComplexOf(scale(p[1], 0, WIDTH, zoomX, zoomY),
                        scale(p[2], 0, HEIGHT, zoomX, zoomY))])

\* A field is the array createComplexPlane returned (at) and its identity
\* (id): the n-th array built has id n.
Plane(id, zoomX, zoomY) == [id |-> id, at |-> createComplexPlane(zoomX, zoomY)]

\* getField's test: one of the three attributes differs from the state's
Changed(delta_x, delta_y, isJulia) ==
    \/ appState.zoomX # delta_x
    \/ appState.zoomY # delta_y
    \/ appState.isJulia # isJulia

\* getField building a plane on every call
getFieldAlways(delta_x, delta_y, isJulia) ==
    [state |-> [appState EXCEPT !.zoomX = delta_x, !.zoomY = delta_y],
     field |-> Plane(planes + 1, delta_x, delta_y),
     built |-> TRUE]

\* getField(delta_x, delta_y, isJulia): the field returned, and appState as
\* the call leaves it
getField(delta_x, delta_y, isJulia) ==
    IF Changed(delta_x, delta_y, isJulia)
    THEN [state |-> [appState EXCEPT !.zoomX = delta_x, !.zoomY = delta_y],
          field |-> Plane(planes + 1, delta_x, delta_y),
          built |-> TRUE]
    ELSE [state |-> appState, field |-> FIELD, built |-> FALSE]

\* setState with the base colour written into the shared hsb object: the
\* object is defaultState's after a reset, so a reset restores the colour of
\* the latest update
setStateShared(update) ==
    IF ResetRequested(update)
    THEN [state |-> [getState(TRUE) EXCEPT !.hsb = appState.hsb],
          field |-> FIELD, built |-> FALSE, threw |-> FALSE]
    ELSE LET zoomX == Hundredths(Int32(update, "zoomX"))
             zoomY == Hundredths(Int32(update, "zoomY"))
             got == getField(zoomX, zoomY, IsJuliaOf(update))
             s == [got.state EXCEPT
                      !.maxIters = Int32(update, "iterations"),
                      !.escapeRadius = Int32(update, "bound"),
                      !.isJulia = IsJuliaOf(update),
                      !.juliaConstant = JuliaConstantOf(update)]
         IN  IF "hsb" \in update.has
             THEN [state |-> [s EXCEPT !.hsb = [h |-> update.hsb.hue,
                                                s |-> update.hsb.saturation,
                                                b |-> update.hsb.brightness]],
                   field |-> got.field, built |-> got.built, threw |-> FALSE]
             ELSE [state |-> s, field |-> got.field, built |-> got.built,
                   threw |-> TRUE]

\* setState merging: a setting the update lacks keeps its value
setStateMerging(update) ==
    IF ResetRequested(update)
    THEN [state |-> getState(TRUE), field |-> FIELD, built |-> FALSE,
          threw |-> FALSE]
    ELSE LET Has(key) == key \in update.has
             zoomX == IF Has("zoomX") THEN Hundredths(update.zoomX)
                      ELSE appState.zoomX
             zoomY == IF Has("zoomY") THEN Hundredths(update.zoomY)
                      ELSE appState.zoomY
             isJulia == IF Has("isJulia") THEN IsJuliaOf(update)
                        ELSE appState.isJulia
             got == getField(zoomX, zoomY, isJulia)
         IN  [state |->
                  [got.state EXCEPT
                      !.maxIters = IF Has("iterations") THEN update.iterations
                                   ELSE @,
                      !.escapeRadius = IF Has("bound") THEN update.bound ELSE @,
                      !.isJulia = isJulia,
                      !.juliaConstant = IF Has("juliaConstant")
                                        THEN JuliaConstantOf(update) ELSE @,
                      !.hsb = IF Has("hsb")
                              THEN [h |-> update.hsb.hue,
                                    s |-> update.hsb.saturation,
                                    b |-> update.hsb.brightness]
                              ELSE @],
              field |-> got.field, built |-> got.built, threw |-> FALSE]

\* setState(update): appState and FIELD as the call leaves them, whether it
\* built a plane, and whether it threw (update.hsb absent: update.hsb.hue is
\* a TypeError, raised after the assignments of lines 96-100).
setState(update) ==
    IF ResetRequested(update)
    THEN [state |-> getState(TRUE), field |-> FIELD, built |-> FALSE,
          threw |-> FALSE]
    ELSE LET zoomX == Hundredths(Int32(update, "zoomX"))
             zoomY == Hundredths(Int32(update, "zoomY"))
             got == getField(zoomX, zoomY, IsJuliaOf(update))
             s == [got.state EXCEPT
                      !.maxIters = Int32(update, "iterations"),
                      !.escapeRadius = Int32(update, "bound"),
                      !.isJulia = IsJuliaOf(update),
                      !.juliaConstant = JuliaConstantOf(update)]
         IN  IF "hsb" \in update.has
             THEN [state |-> [s EXCEPT !.hsb = [h |-> update.hsb.hue,
                                                s |-> update.hsb.saturation,
                                                b |-> update.hsb.brightness]],
                   field |-> got.field, built |-> got.built, threw |-> FALSE]
             ELSE [state |-> s, field |-> got.field, built |-> got.built,
                   threw |-> TRUE]

\* -------------------------------------------------------------- the sweep
\* The condition of the while loop of renderMandelbrotSet
Looping(state, C, at) ==
    modulusLess(at.Z, state.escapeRadius) /\ at.itr < state.maxIters

\* One pass of the while loop: the body when the condition holds, nothing
\* once it has failed
whileStep(state, C, at) ==
    IF Looping(state, C, at)
    THEN [Z |-> add(multiply(at.Z, at.Z), C), itr |-> at.itr + 1]
    ELSE at

\* n passes, split in halves to keep the evaluation shallow; the first half
\* is bound as a value before the second starts from it
RECURSIVE passes(_, _, _, _)
passes(state, C, at, n) ==
    IF n <= 0 THEN at
    ELSE IF n = 1 THEN whileStep(state, C, at)
    ELSE Only({IF Looping(state, C, half)
               THEN passes(state, C, half, n - n \div 2)
               ELSE half : half \in {passes(state, C, at, n \div 2)}})

\* The loop as a do-while: the body runs once before the condition is read
escapeLoopDoWhile(Z, C, itr, state) ==
    passes(state, C, [Z |-> add(multiply(Z, Z), C), itr |-> itr + 1],
           state.maxIters - itr - 1)

\* The while loop: the condition fails after at most maxIters passes
escapeLoop(Z, C, itr, state) ==
    passes(state, C, [Z |-> Z, itr |-> itr], state.maxIters - itr)

\* The constant of the recurrence for the sample Z: K || Complex.of(Z)
ConstantFor(state, Z) ==
    IF state.isJulia = "true"
    THEN ComplexOf(state.juliaConstant.val, state.juliaConstant.val)
    ELSE Z

\* colorValue of a finished loop
colorValueOf(state, done) ==
    IF state.escapeColoring /\ done.itr = state.maxIters
    THEN VInt(0)
    ELSE renormalized(done.itr, modulusSquared(done.Z))

\* getNormedHSB clamping a sum above the maximum to the maximum
getNormedHSBClamped(hsb, val) ==
    LET h == VPlus(hsb.h, val)
        s == VPlus(hsb.s, val)
        b == VPlus(hsb.b, val)
    IN  [HUE |-> IF VLeq(h, MAXHUE) THEN h ELSE VInt(MAXHUE),
         SATURATION |-> IF VLeq(s, MAXSAT) THEN s ELSE VInt(MAXSAT),
         BRIGHTNESS |-> IF VLeq(b, MAXSAT) THEN b ELSE VInt(MAXSAT)]

\* getNormedHSB(hsb, val)
getNormedHSB(hsb, val) ==
    LET h == VPlus(hsb.h, val)
        s == VPlus(hsb.s, val)
        b == VPlus(hsb.b, val)
    IN  [HUE |-> IF VLeq(h, MAXHUE) THEN h ELSE norm(h, 0, MAXHUE),
         SATURATION |-> IF VLeq(s, MAXSAT) THEN s ELSE norm(s, 0, MAXSAT),
         BRIGHTNESS |-> IF VLeq(b, MAXSAT) THEN b ELSE norm(b, 0, MAXSAT)]

\* (x + (y << 9)) << 2
pixelIndex(p) == (p[1] + p[2] * 512) * 4

Slots == {pixelIndex(p) + c : p \in Points, c \in 0 .. 3}

PointOf(slot) == CHOOSE p \in Points : slot - pixelIndex(p) \in 0 .. 3

\* colorFractal(hsbObj, colorValues, pixels): the hsb of every point, and
\* p5.pixels after the writes
colorFractal(hsbObj, colorValues) ==
    Only({[hsb |-> hsb,
           pixels |->
               Array([i \in Slots |->
                  ToUint8Clamp(
                    CASE i = pixelIndex(PointOf(i)) -> hsb[PointOf(i)].HUE
                      [] i = pixelIndex(PointOf(i)) + 1 ->
                             hsb[PointOf(i)].SATURATION
                      [] i = pixelIndex(PointOf(i)) + 2 ->
                             hsb[PointOf(i)].BRIGHTNESS
                      [] i = pixelIndex(PointOf(i)) + 3 -> VInt(ALPHA))])] :
          hsb \in {Array([p \in Points |->
                             getNormedHSB(hsbObj, colorValues[p])])}})

\* The locals of one renderMandelbrotSet call over the field
Sweep(state, field) ==
    Only({[state |-> state,
           sample |-> field.at,
           itr |-> Array([p \in Points |-> done[p].itr]),
           Z |-> Array([p \in Points |-> done[p].Z]),
           colorValues |->
               Array([p \in Points |-> colorValueOf(state, done[p])])] :
          done \in {Array([p \in Points |->
                              escapeLoop(field.at[p],
                                         ConstantFor(state, field.at[p]),
                                         0, state)])}})

\* renderMandelbrotSet(): its locals, and p5.pixels after the call
renderMandelbrotSet(state, field) ==
    Only({Only({[locals |-> [ran |-> TRUE, state |-> sw.state,
                             sample |-> sw.sample, itr |-> sw.itr, Z |-> sw.Z,
                             colorValues |-> sw.colorValues,
                             hsb |-> painted.hsb],
                 pixels |-> painted.pixels] :
                painted \in {colorFractal(state.hsb, sw.colorValues)}}) :
          sw \in {Sweep(state, field)}})

\* ---------------------------------------------------- the calls modelled
\* Plane windows a caller sends, in the caller's units (hundredths):
\* the default window, a window of samples 0 and 1, a window outside the
\* default escape radius.
Windows == {<<-250, 250>>, <<0, 200>>, <<2000, 2200>>}

\* isJulia and juliaConstant as a caller sends them
Variants == {<<FALSE, 0>>, <<TRUE, 0>>}

IterChoices == {0, MaxPatchIters}

BoundChoices == {1, 20}

HsbChoices ==
    {[hue |-> 350, saturation |-> 90, brightness |-> 100],
     [hue |-> 200000, saturation |-> 0, brightness |-> 100]}

FullKeys == Keys \ {"reset", "escapeColoring"}

\* The objects the form sends, every setting present: each window, variant
\* and colour with the largest count and radius, and each count and radius
\* on the window of samples 0 and 1
FullPatches ==
    {u \in {Patch(FullKeys, FALSE, it, bd, w[1], w[2], v[1], RInt(v[2]), c,
                  FALSE) :
               it \in IterChoices, bd \in BoundChoices, w \in Windows,
               v \in Variants, c \in HsbChoices} :
        \/ u.iterations = MaxPatchIters /\ u.bound = 20
        \/ u.zoomX = 0 /\ u.hsb.hue = 350}

\* A full object that also carries escapeColoring
ColoringPatches ==
    {[u EXCEPT !.has = FullKeys \cup {"escapeColoring"},
               !.escapeColoring = TRUE] :
        u \in {f \in FullPatches :
                  /\ f.iterations = MaxPatchIters
                  /\ f.bound = 20
                  /\ f.hsb.hue = 350
                  /\ ~f.isJulia}}

\* Objects with settings left out: a colour alone, an iteration count alone
PartialPatches ==
    {[Bare({"hsb"}) EXCEPT !.hsb = c] : c \in HsbChoices}
    \cup {[Bare({"iterations"}) EXCEPT !.iterations = MaxPatchIters]}

ResetPatch == [Bare({"reset"}) EXCEPT !.reset = TRUE]

Patches == FullPatches \cup ColoringPatches \cup PartialPatches \cup {ResetPatch}

\* ------------------------------------------------------------------ state
\* p5.pixels before the first render
Blank == Array([i \in Slots |-> 0])

NoSweep ==
    [ran |-> FALSE,
     state |-> defaultState,
     sample |-> createComplexPlane(defaultState.zoomX, defaultState.zoomY),
     itr |-> Array([p \in Points |-> 0]),
     Z |-> createComplexPlane(defaultState.zoomX, defaultState.zoomY),
     colorValues |-> Array([p \in Points |-> VInt(0)]),
     hsb |-> Array([p \in Points |->
                       [HUE |-> VInt(0), SATURATION |-> VInt(0),
                        BRIGHTNESS |-> VInt(0)]])]

\* What a call did to the configuration: nothing, the base colour alone, or
\* more than that
Effect(before, now) ==
    IF now = before THEN "none"
    ELSE IF now = [before EXCEPT !.hsb = now.hsb] THEN "colour"
    ELSE "more"

\* The record of the latest call: the entry point and its argument, whether
\* it threw, whether it built a plane, what it did to the configuration, and
\* whether it is a draw made right after a draw.
Call(op, update, threw, built, effect, again) ==
    [op |-> op, update |-> update, threw |-> threw, built |-> built,
     effect |-> effect, again |-> again]

\* p5.setup has run
Init ==
    /\ appState = getState(TRUE)
    /\ FIELD = Plane(1, defaultState.zoomX, defaultState.zoomY)
    /\ planes = 1
    /\ pixels = Blank
    /\ sweep = NoSweep
    /\ last = Call("setup", Bare({}), FALSE, FALSE, "none", FALSE)

\* A draw whose arithmetic works in place: the field is left holding the
\* final Z of every point
DrawInPlace ==
    \E out \in {renderMandelbrotSet(getState(FALSE), FIELD)} :
        /\ pixels' = out.pixels
        /\ sweep' = out.locals
        /\ FIELD' = [FIELD EXCEPT !.at = out.locals.Z]
        /\ last' = Call("draw", Bare({}), FALSE, FALSE, "none", last.op = "draw")
        /\ UNCHANGED <<appState, planes>>

\* p5.draw()
Draw ==
    \E out \in {renderMandelbrotSet(getState(FALSE), FIELD)} :
        /\ pixels' = out.pixels
        /\ sweep' = out.locals
        /\ last' = Call("draw", Bare({}), FALSE, FALSE, "none", last.op = "draw")
        /\ UNCHANGED <<appState, FIELD, planes>>

\* An update that sets the state and leaves the rendering to the next draw
UpdateUnrendered(newState) ==
    \E set \in {setState(newState)} :
        /\ set.built => planes < MaxPlanes
        /\ appState' = set.state
        /\ FIELD' = set.field
        /\ planes' = IF set.built THEN planes + 1 ELSE planes
        /\ UNCHANGED <<pixels, sweep>>
        /\ last' = Call("update", newState, set.threw, set.built,
                        Effect(appState, set.state), FALSE)

\* p5.update(newState): setState(newState), then render() unless it threw
Update(newState) ==
    \E set \in {setState(newState)} :
        /\ set.built => planes < MaxPlanes
        /\ appState' = set.state
        /\ FIELD' = set.field
        /\ planes' = IF set.built THEN planes + 1 ELSE planes
        /\ IF set.threw
           THEN UNCHANGED <<pixels, sweep>>
           ELSE \E out \in {renderMandelbrotSet(set.state, set.field)} :
                    /\ pixels' = out.pixels
                    /\ sweep' = out.locals
        /\ last' = Call("update", newState, set.threw, set.built,
                        Effect(appState, set.state), FALSE)

Next == Draw \/ \E newState \in Patches : Update(newState)

Spec == Init /\ [][Next]_vars

\* ------------------------------------------------- notions of the claims
\* The channel c (0 hue, 1 saturation, 2 brightness) of an hsb that
\* getNormedHSB returned
Channel(hsb, c) ==
    CASE c = 0 -> hsb.HUE [] c = 1 -> hsb.SATURATION [] c = 2 -> hsb.BRIGHTNESS

\* The base colour's channel c, and the channel's maximum
BaseOf(hsb, c) == CASE c = 0 -> hsb.h [] c = 1 -> hsb.s [] c = 2 -> hsb.b
MaxOf(c) == IF c = 0 THEN MAXHUE ELSE MAXSAT

\* v > n for an integer n and a value v with q = 1 (false for NaN); a value
\* with a log term never equals an integer
VGreater(v, n) ==
    \/ v.k = "inf"
    \/ v.k = "num" /\ ~VLeq(v, n)

\* v < n for an integer n and a value v = (a - L(m)) / q
VBelow(v, n) ==
    /\ v.k = "num"
    /\ IF v.lg THEN LogLogGeq(v.m, v.a - n * v.q) ELSE v.a < n * v.q

\* 0 <= v < max
InRange(v, max) ==
    /\ v.k = "num"
    /\ IF v.lg THEN ~LogLogGeq(v.m, v.a) ELSE v.a >= 0
    /\ VBelow(v, max)

\* Z <- Z*Z + C
Recurrence(Z, C) == add(multiply(Z, Z), C)

\* <<Z_from, ..., Z_(from+n-1)>> of the recurrence, Z being Z_from (n >= 1)
RECURSIVE Orbit(_, _, _)
Orbit(Z, C, n) ==
    IF n <= 1 THEN <<Z>>
    ELSE Only({head \o Orbit(Recurrence(head[Len(head)], C), C, n - n \div 2) :
               head \in {Orbit(Z, C, n \div 2)}})

\* count is the least n >= from with |Z_n| >= radius, or max when no n < max
\* is one (Z_0 = sample; from is 0 or 1, from <= max)
LeastEscape(count, from, sample, C, radius, max) ==
    /\ count \in from .. max
    /\ \E orbit \in {Orbit(sample, C, count + 1)} :
          /\ \A n \in from .. count - 1 : modulusLess(orbit[n + 1], radius)
          /\ count = max \/ ~modulusLess(orbit[count + 1], radius)

\* The settings a non-reset update names, as setState converts them
Sent(update) ==
    [maxIters |-> Int32(update, "iterations"),
     escapeRadius |-> Int32(update, "bound"),
     zoomX |-> Hundredths(Int32(update, "zoomX")),
     zoomY |-> Hundredths(Int32(update, "zoomY")),
     isJulia |-> IsJuliaOf(update),
     juliaConstant |-> JuliaConstantOf(update)]

\* The patch property each configuration setting is read from
KeyOf ==
    [maxIters |-> "iterations", escapeRadius |-> "bound", zoomX |-> "zoomX",
     zoomY |-> "zoomY", isJulia |-> "isJulia",
     juliaConstant |-> "juliaConstant", hsb |-> "hsb"]

\* The latest call is a non-reset update
Patched(call) == call.op = "update" /\ ~ResetRequested(call.update)

\* Every finite colour value of the latest sweep is one LogLogGeq decides
\* exactly: m >= 1.29, and floor(100 m) is none of the tabled floors.
LogTableDecides ==
    \A p \in Points :
        sweep.colorValues[p].lg =>
            /\ Centi(sweep.colorValues[p].m) > ExpCenti(-4)
            /\ \A t \in -3 .. 8 : Centi(sweep.colorValues[p].m) # ExpCenti(t)

\* ------------------------------------------------------------- the claims
\* C1: the stored field is the field of the configuration's window, in every
\* state and at every sweep: FIELD holds the samples createComplexPlane
\* gives for appState.zoomX, appState.zoomY, and a sweep ran over the
\* samples of the window its configuration names.
C1_FieldOfWindow ==
    /\ FIELD.at = createComplexPlane(appState.zoomX, appState.zoomY)
    /\ sweep.ran =>
          sweep.sample =
              createComplexPlane(sweep.state.zoomX, sweep.state.zoomY)

\* C2, as claimed: a non-reset update leaves every configuration setting
\* whose property the patch lacks at the value it had.
C2_AbsentKept ==
    [][Patched(last') =>
          \A k \in DOMAIN KeyOf :
              KeyOf[k] \notin last'.update.has => appState'[k] = appState[k]]_vars

\* C2, amended: a non-reset update overwrites the count, the radius, the
\* window, the variant and the constant from the patch whether the patch
\* has them or not (an absent count, radius or bound becomes 0, an absent
\* variant or constant undefined); the base colour is overwritten when the
\* patch has hsb and kept, with the update throwing, when it has not; the
\* escapeColoring flag is kept.
C2_Overwritten ==
    [][Patched(last') =>
          /\ \A k \in DOMAIN Sent(last'.update) :
                appState'[k] = Sent(last'.update)[k]
          /\ appState'.escapeColoring = appState.escapeColoring
          /\ IF "hsb" \in last'.update.has
             THEN /\ ~last'.threw
                  /\ appState'.hsb = [h |-> last'.update.hsb.hue,
                                      s |-> last'.update.hsb.saturation,
                                      b |-> last'.update.hsb.brightness]
             ELSE /\ last'.threw
                  /\ appState'.hsb = appState.hsb]_vars

\* A patch without a count has set the count to 0 and was applied.
C2_Witness ==
    /\ Patched(last)
    /\ ~last.threw
    /\ "iterations" \notin last.update.has
    /\ appState.maxIters = 0
    /\ last.effect = "more"

\* C3: update rejects a count or radius that is not positive with an
\* error, so the configuration has a positive count and radius in every
\* state and at every sweep.
C3_PositiveOrRejected ==
    /\ appState.maxIters > 0 /\ appState.escapeRadius > 0
    /\ sweep.ran => sweep.state.maxIters > 0 /\ sweep.state.escapeRadius > 0
    /\ (/\ Patched(last)
        /\ \/ Int32(last.update, "iterations") <= 0
           \/ Int32(last.update, "bound") <= 0) => last.threw

\* C4: after a non-reset update whose patch has escapeColoring = b the
\* configuration's escapeColoring is b, and with b true the sweep that
\* follows gives colour value 0 to every point whose count is maxIters.
C4_EscapeColoringSet ==
    (/\ Patched(last)
     /\ ~last.threw
     /\ "escapeColoring" \in last.update.has) =>
        /\ appState.escapeColoring = last.update.escapeColoring
        /\ last.update.escapeColoring =>
              \A p \in Points :
                  sweep.itr[p] = sweep.state.maxIters =>
                      sweep.colorValues[p] = VInt(0)

\* C5, as claimed: the pixel buffer after an update call is the buffer
\* before it.
C5_UpdateKeepsPixels == [][last'.op = "update" => pixels' = pixels]_vars

\* C5, amended: update sets the configuration and the field and then
\* renders: unless it threw, the buffer after the call is the render of the
\* new configuration over the new field; when it threw, the buffer is the
\* one before the call.
C5_UpdateRenders ==
    [][last'.op = "update" =>
          IF last'.threw
          THEN pixels' = pixels
          ELSE /\ sweep'.state = appState'
               /\ sweep'.sample = FIELD'.at
               /\ pixels' =
                      colorFractal(appState'.hsb, sweep'.colorValues).pixels]_vars

\* An update has put a render in the buffer.
C5_Witness ==
    /\ last.op = "update"
    /\ ~last.threw
    /\ pixels # Blank
    /\ sweep.state = appState

\* C6: after update({reset: true}) the configuration is the documented
\* default one, whatever the updates before.
C6_ResetRestores ==
    (last.op = "update" /\ ResetRequested(last.update)) =>
        /\ appState.maxIters = 400
        /\ appState.escapeRadius = 20
        /\ appState.escapeColoring = FALSE
        /\ appState.zoomX = <<-5, 2>>
        /\ appState.zoomY = <<5, 2>>
        /\ appState.isJulia = "false"
        /\ appState.hsb = [h |-> 0, s |-> 0, b |-> 0]

\* A reset has changed a configuration that earlier updates had set.
C6_Witness ==
    /\ last.op = "update"
    /\ ResetRequested(last.update)
    /\ last.effect = "more"
    /\ planes > 1

\* C7: a draw changes neither the configuration nor the field, and a draw
\* right after a draw leaves the pixel buffer as it was.
C7_RenderIdempotent ==
    [][last'.op = "draw" =>
          /\ appState' = appState
          /\ FIELD' = FIELD
          /\ last.op = "draw" => pixels' = pixels]_vars

\* A draw has followed a draw, over a field an update built.
C7_Witness ==
    /\ last.op = "draw"
    /\ last.again
    /\ planes > 1
    /\ pixels # Blank

\* C8: a non-reset update whose window and variant are those of the
\* configuration keeps the field: the same array (id), the same samples.
C8_FieldKept ==
    [][(/\ Patched(last')
        /\ Sent(last'.update).zoomX = appState.zoomX
        /\ Sent(last'.update).zoomY = appState.zoomY
        /\ Sent(last'.update).isJulia = appState.isJulia) =>
           FIELD' = FIELD]_vars

\* An update has changed the base colour alone and built no plane.
C8_Witness ==
    /\ Patched(last)
    /\ ~last.threw
    /\ last.effect = "colour"
    /\ ~last.built
    /\ planes > 1

\* C9, as claimed: with maxIters >= 1 the count of every point is the least
\* n >= 1 with |Z_n| >= escapeRadius, or maxIters when there is none up to
\* maxIters; it lies in 1 .. maxIters.
C9_CountFromOne ==
    (sweep.ran /\ sweep.state.maxIters >= 1) =>
        \A p \in Points :
            LeastEscape(sweep.itr[p], 1, sweep.sample[p],
                        ConstantFor(sweep.state, sweep.sample[p]),
                        sweep.state.escapeRadius, sweep.state.maxIters)

\* C9, amended: the loop tests |Z| < escapeRadius before every application,
\* the first included: with maxIters >= 1 the count of every point is the
\* least n >= 0 with |Z_n| >= escapeRadius (Z_0 the sample), or maxIters
\* when no n < maxIters is one; it lies in 0 .. maxIters, the final Z is
\* Z_count, and the count is 0 for a sample whose own modulus is already
\* >= escapeRadius.
C9_CountFromZero ==
    (sweep.ran /\ sweep.state.maxIters >= 1) =>
        \A p \in Points :
            /\ LeastEscape(sweep.itr[p], 0, sweep.sample[p],
                           ConstantFor(sweep.state, sweep.sample[p]),
                           sweep.state.escapeRadius, sweep.state.maxIters)
            /\ sweep.Z[p] =
                   Orbit(sweep.sample[p],
                         ConstantFor(sweep.state, sweep.sample[p]),
                         sweep.itr[p] + 1)[sweep.itr[p] + 1]
            /\ ~modulusLess(sweep.sample[p], sweep.state.escapeRadius) =>
                   sweep.itr[p] = 0

\* A sweep with a positive count limit and radius has left one point at
\* count 0 and taken another to the limit.
C9_Witness ==
    /\ sweep.ran
    /\ sweep.state.maxIters >= 1
    /\ sweep.state.escapeRadius > 0
    /\ \E p \in Points : sweep.itr[p] = 0
    /\ \E p \in Points : sweep.itr[p] = sweep.state.maxIters

\* C10, as claimed: every channel getNormedHSB returns in a sweep is
\* base + colorValue itself when that sum is at most the channel's maximum,
\* and lies in [0, max) when the sum exceeds the maximum.
C10_InRange ==
    sweep.ran =>
        \A p \in Points, c \in 0 .. 2 :
            LET sum == VPlus(BaseOf(sweep.state.hsb, c), sweep.colorValues[p])
            IN  /\ VLeq(sum, MaxOf(c)) => Channel(sweep.hsb[p], c) = sum
                /\ VGreater(sum, MaxOf(c)) =>
                       InRange(Channel(sweep.hsb[p], c), MaxOf(c))

\* C10, amended: a sum at most the maximum is returned unchanged; a finite
\* sum above the maximum is returned as sum / max, which is at least 1 and
\* is below max exactly when the sum is below max * max; an infinite sum is
\* returned as Infinity, and a NaN sum as NaN.
C10_Divided ==
    sweep.ran =>
        \A p \in Points, c \in 0 .. 2 :
            LET sum == VPlus(BaseOf(sweep.state.hsb, c), sweep.colorValues[p])
                out == Channel(sweep.hsb[p], c)
            IN  /\ VLeq(sum, MaxOf(c)) => out = sum
                /\ (sum.k = "num" /\ VGreater(sum, MaxOf(c))) =>
                       /\ out = [sum EXCEPT !.q = MaxOf(c)]
                       /\ ~VBelow(out, 1)
                       /\ InRange(out, MaxOf(c)) <=>
                              VBelow(sum, MaxOf(c) * MaxOf(c))
                /\ sum.k = "inf" => out = Infinity
                /\ sum.k = "nan" => out = NaN

\* One sweep has returned a sum unchanged, a divided sum inside [0, max) and
\* a divided sum outside it.
C10_Witness ==
    /\ sweep.ran
    /\ \E p \in Points, c \in 0 .. 2 :
          /\ Channel(sweep.hsb[p], c).k = "num"
          /\ Channel(sweep.hsb[p], c).q = 1
          /\ Channel(sweep.hsb[p], c).lg
    /\ \E p \in Points, c \in 0 .. 2 :
          /\ Channel(sweep.hsb[p], c).k = "num"
          /\ Channel(sweep.hsb[p], c).q = MaxOf(c)
          /\ InRange(Channel(sweep.hsb[p], c), MaxOf(c))
    /\ \E p \in Points, c \in 0 .. 2 :
          /\ Channel(sweep.hsb[p], c).k = "num"
          /\ Channel(sweep.hsb[p], c).q = MaxOf(c)
          /\ ~InRange(Channel(sweep.hsb[p], c), MaxOf(c))

====
